---- MODULE Spec2Model ----
(***************************************************************************)
(* A model of open_lm/train.py: the AverageMeter accumulator, the epoch    *)
(* driver train_one_epoch (scheduler call, gradient accumulation, scaler / *)
(* clipping / optimizer step, coordinator-gated logging) and the           *)
(* evaluation driver evaluate, run by world_size processes.                *)
(*                                                                         *)
(* Numbers that are floats in the program are exact rationals <<n, d>>     *)
(* here (d > 0, lowest terms); <<0, 0>> is NaN.  Floating-point rounding   *)
(* is not modelled.                                                        *)
(***************************************************************************)
EXTENDS Integers, Sequences, FiniteSets, TLC

\* ------------------------------------------------------------------ bounds
MaxUpdates == 3      \* AverageMeter.update calls in a row (SpecMeter)
MaxWeight  == 2      \* largest weight n passed to AverageMeter.update
MaxVal     == 2      \* largest value passed to AverageMeter.update
MaxEpochs  == 2      \* epochs the caller runs
MaxStream  == 3      \* batches a data stream yields in one pass
MaxRows    == 4      \* sequences in one batch, and args.batch_size
MaxAccum   == 3      \* args.accum_freq
MaxGrad    == 2      \* largest gradient component one backward call adds
MaxClip    == 2      \* largest args.grad_clip_norm
MaxLoss    == 2      \* largest loss value of one sequence
MaxValRows == 2      \* sequences in one validation batch
MaxValStream == 2    \* batches the validation stream yields

None == -1           \* Python's None for an optional number

\* ------------------------------------------------------- exact arithmetic
Abs(x) == IF x < 0 THEN -x ELSE x

Min(a, b) == IF a <= b THEN a ELSE b

RECURSIVE GCD(_, _)
GCD(a, b) == IF b = 0 THEN a ELSE GCD(b, a % b)

NaN == <<0, 0>>

IsNaN(x) == x[2] = 0

RNorm(n, d) ==
    IF d = 0 THEN NaN
    ELSE LET g == GCD(Abs(n), Abs(d))
             s == IF d < 0 THEN -1 ELSE 1
         IN  <<(s * n) \div g, (s * d) \div g>>

RInt(k) == <<k, 1>>

RAdd(x, y) ==
    IF IsNaN(x) \/ IsNaN(y) THEN NaN
    ELSE RNorm(x[1] * y[2] + y[1] * x[2], x[2] * y[2])

RMul(x, y) ==
    IF IsNaN(x) \/ IsNaN(y) THEN NaN ELSE RNorm(x[1] * y[1], x[2] * y[2])

\* x / y for y # 0
RDiv(x, y) ==
    IF IsNaN(x) \/ IsNaN(y) THEN NaN ELSE RNorm(x[1] * y[2], x[2] * y[1])

RLeq(x, y) == x[1] * y[2] <= y[1] * x[2]

RECURSIVE SumSeq(_)
SumSeq(s) == IF s = <<>> THEN 0 ELSE Head(s) + SumSeq(Tail(s))

\* s[a:b] of Python, on a 1-based sequence
Slice(s, a, b) == SubSeq(s, Min(a, Len(s)) + 1, Min(b, Len(s)))

\* ------------------------------------------------------------ AverageMeter
\* AverageMeter.reset
Reset == [val |-> RInt(0), avg |-> RInt(0), sum |-> RInt(0), count |-> 0]

\* self.sum += val * n, with the weight forgotten
UpdateSumNoWeight(m, v, n) == RAdd(m.sum, v)

\* self.sum += val * n
UpdateSum(m, v, n) == RAdd(m.sum, RMul(v, RInt(n)))

\* AverageMeter.update raises ZeroDivisionError at self.sum / self.count
UpdateRaises(m, n) == m.count + n = 0

\* AverageMeter.update(val, n); when it raises, val, sum and count are
\* already assigned and avg is not
Update(m, v, n) ==
    LET s == UpdateSum(m, v, n)
        c == m.count + n
    IN  [val   |-> v,
         sum   |-> s,
         count |-> c,
         avg   |-> IF c = 0 THEN m.avg ELSE RDiv(s, RInt(c))]

\* ------------------------------------------------------------------- state
VARIABLES
    args,          \* the configuration object (fixed during a run)
    env,           \* the collaborators handed to the drivers: scaler, model
                   \* wrapper, writers, wandb module, data streams, clocks
    pc,            \* per process: where it is in main / train_one_epoch / evaluate
    err,           \* per process: the exception that ended it ("" if none)
    epoch,         \* per process: epoch argument of the current call
    i,             \* per process: batch index of enumerate(dataloader)
    step,          \* per process: num_batches_per_epoch * epoch + i
    ii,            \* per process: chunk index of the accumulation loop
    batch,         \* per process: current batch, one loss value per sequence
    local_loss,    \* per process: loss of the current forward pass
    total_loss,    \* per process: total_loss of the current batch
    losses_m,      \* per process: AverageMeter
    batch_time_m,  \* per process: AverageMeter
    data_time_m,   \* per process: AverageMeter
    grad,          \* per process: gradients it holds, [d, s2]: sqrt(s2) * d
    calls,         \* per process: calls made on scheduler / model / optimizer
                   \* / scaler for the current batch, in order
    sched,         \* per process: arguments of all scheduler calls of the run
    steps,         \* per process: step values of all batches of the run
    sink,          \* per process: records written to external sinks
    evalHist,      \* per process: <<loss, rows>> of the batches of this evaluate
    eval_loss,     \* per process: log_data["loss"] returned by evaluate
    logged,        \* per process: <<loss, rows>> of the batches of this epoch
                   \* for which the logging branch ran
    meter,         \* a stand-alone AverageMeter
    hist,          \* the update(v, n) calls made on meter since its reset
    meterErr       \* whether the last call on meter raised

cfgVars   == <<args, env>>
procVars  == <<pc, err, epoch, i, step, ii, batch, local_loss, total_loss,
               losses_m, batch_time_m, data_time_m, grad, calls, sched, steps,
               sink, evalHist, eval_loss, logged>>
meterVars == <<meter, hist, meterErr>>
vars      == <<cfgVars, procVars, meterVars>>

\* ranks of the processes of the job
Procs == 0 .. (args.world_size - 1)

\* open_lm.distributed.is_master: the global rank-0 process
is_master(p) == p = 0

Call(op, a) == [op |-> op, arg |-> a]

\* the batches a stream may yield: rows sequences, one loss value each
Batches(rows, losses) == UNION {[1 .. r -> losses] : r \in rows}

\* loss(out, targets): mean over the sequences given (mean-reduced
\* cross-entropy, all sequences equally long); NaN on an empty input
LossFn(b) == RNorm(SumSeq(b), Len(b))

\* ---------------------------------------------------------------- gradients
\* the parameter blocks whose gradients process p holds: its own shard
\* under FSDP, all of them otherwise
View(p) == IF env.fsdp THEN {p} ELSE Procs

RECURSIVE SumSq(_, _)
SumSq(d, ks) ==
    IF ks = {} THEN 0
    ELSE LET k == CHOOSE x \in ks : TRUE
         IN  d[k] * d[k] + SumSq(d, ks \ {k})

\* squared L2 norm of the gradients process p holds
LocalNormSq(g, p) == RMul(g[p].s2, RInt(SumSq(g[p].d, View(p))))

RECURSIVE SumLocalNormSq(_, _)
SumLocalNormSq(g, ps) ==
    IF ps = {} THEN RInt(0)
    ELSE LET q == CHOOSE x \in ps : TRUE
         IN  RAdd(LocalNormSq(g, q), SumLocalNormSq(g, ps \ {q}))

\* squared L2 norm over all parameters of the model
GlobalNormSq(g) ==
    IF env.fsdp THEN SumLocalNormSq(g, Procs) ELSE LocalNormSq(g, 0)

\* optimizer.zero_grad()
ZeroGrad == [d |-> [k \in Procs |-> 0], s2 |-> RInt(1)]

\* factor the scaler multiplies the loss by
LossScale == IF env.scaler THEN env.loss_scale ELSE 1

\* scaler.unscale_(optimizer)
Unscale(gp) == [gp EXCEPT !.s2 = RDiv(gp.s2, RInt(LossScale * LossScale))]

\* clip_grad_norm_ given the squared total norm n2: scale by
\* max_norm / total_norm when that is below 1
ClipBy(gp, n2) ==
    LET m2 == RInt(args.grad_clip_norm * args.grad_clip_norm)
    IN  IF RLeq(n2, m2) THEN gp ELSE [gp EXCEPT !.s2 = RDiv(RMul(gp.s2, m2), n2)]

\* -------------------------------------------------------- train_one_epoch
NumTrainMetrics == 7     \* entries of log_data in train_one_epoch
NumEvalMetrics  == 6     \* entries of log_data in evaluate

Rec(s, phase, key, n) == [sink |-> s, phase |-> phase, key |-> key, n |-> n]

\* "if not args.skip_scheduler", taken always
SchedulerCalledAlways == TRUE

\* if not args.skip_scheduler: scheduler(step)
SchedulerCalled == ~args.skip_scheduler

\* the assertion with its condition dropped
DivisibleAlways == TRUE

\* assert args.batch_size % args.accum_freq == 0
Divisible == args.batch_size % args.accum_freq = 0

per_batch == args.batch_size \div args.accum_freq

\* chunks that overlap by starting one sequence early
ChunkLoEarly(k) == IF k = 0 THEN 0 ELSE k * per_batch - 1

\* inputs[ii * per_batch : (ii + 1) * per_batch]
ChunkLo(k) == k * per_batch

ChunkHi(k) == (k + 1) * per_batch

\* the scaling by accum_freq forgotten
LocalLossUnscaled(b) == LossFn(b)

\* loss(...) / args.accum_freq
LocalLoss(b) == RDiv(LossFn(b), RInt(args.accum_freq))

\* model.train(); data["train"].set_epoch(epoch); fresh meters
TrainBegin(p) ==
    /\ pc[p] = "train_call"
    /\ losses_m' = [losses_m EXCEPT ![p] = Reset]
    /\ batch_time_m' = [batch_time_m EXCEPT ![p] = Reset]
    /\ data_time_m' = [data_time_m EXCEPT ![p] = Reset]
    /\ i' = [i EXCEPT ![p] = 0]
    /\ logged' = [logged EXCEPT ![p] = <<>>]
    /\ pc' = [pc EXCEPT ![p] = "loop"]
    /\ UNCHANGED <<cfgVars, meterVars, err, epoch, step, ii, batch, local_loss,
                   total_loss, grad, calls, sched, steps, sink, evalHist,
                   eval_loss>>

\* for i, batch in enumerate(dataloader): step, scheduler(step), texts,
\* data_time_m.update, optimizer.zero_grad()
Fetch(p) ==
    /\ pc[p] = "loop"
    /\ i[p] < env.train_len
    /\ \E b \in Batches(env.rows, env.losses), dt \in env.dts :
         LET st == env.num_batches * epoch[p] + i[p]
         IN  /\ step' = [step EXCEPT ![p] = st]
             /\ steps' = [steps EXCEPT ![p] = Append(@, st)]
             /\ sched' = [sched EXCEPT ![p] =
                            IF SchedulerCalled THEN Append(@, st) ELSE @]
             /\ calls' = [calls EXCEPT ![p] =
                            (IF SchedulerCalled
                               THEN <<Call("scheduler", <<st>>)>> ELSE <<>>)
                            \o <<Call("zero_grad", <<>>)>>]
             /\ batch' = [batch EXCEPT ![p] = b]
             /\ data_time_m' = [data_time_m EXCEPT ![p] = Update(@, RInt(dt), 1)]
    /\ grad' = [grad EXCEPT ![p] = ZeroGrad]
    /\ ii' = [ii EXCEPT ![p] = 0]
    /\ pc' = [pc EXCEPT ![p] = IF args.accum_freq = 1 THEN "forward" ELSE "assert"]
    /\ UNCHANGED <<cfgVars, meterVars, logged, err, epoch, i, local_loss, total_loss,
                   losses_m, batch_time_m, sink, evalHist, eval_loss>>

\* train_one_epoch returning with the last batch still to come
TrainEndEarly(p) ==
    /\ pc[p] = "loop"
    /\ i[p] + 1 >= env.train_len
    /\ pc' = [pc EXCEPT ![p] = "eval_call"]
    /\ UNCHANGED <<cfgVars, meterVars, logged, err, epoch, i, step, ii, batch,
                   local_loss, total_loss, losses_m, batch_time_m, data_time_m,
                   grad, calls, sched, steps, sink, evalHist, eval_loss>>

\* the stream is exhausted: train_one_epoch returns
TrainEnd(p) ==
    /\ pc[p] = "loop"
    /\ i[p] >= env.train_len
    /\ pc' = [pc EXCEPT ![p] = "eval_call"]
    /\ UNCHANGED <<cfgVars, meterVars, logged, err, epoch, i, step, ii, batch,
                   local_loss, total_loss, losses_m, batch_time_m, data_time_m,
                   grad, calls, sched, steps, sink, evalHist, eval_loss>>

\* else branch, before the chunk loop: the divisibility assertion
AssertDivisible(p) ==
    /\ pc[p] = "assert"
    /\ IF Divisible
         THEN /\ pc' = [pc EXCEPT ![p] = "forward"]
              /\ err' = err
         ELSE /\ pc' = [pc EXCEPT ![p] = "failed"]
              /\ err' = [err EXCEPT ![p] = "AssertionError: Batch size must be divisible by accum_freq"]
    /\ UNCHANGED <<cfgVars, meterVars, logged, epoch, i, step, ii, batch, local_loss,
                   total_loss, losses_m, batch_time_m, data_time_m, grad, calls,
                   sched, steps, sink, evalHist, eval_loss>>

\* one forward pass and its loss: the whole batch when accum_freq = 1,
\* chunk ii otherwise
Forward(p) ==
    /\ pc[p] = "forward"
    /\ IF args.accum_freq = 1
         THEN /\ calls' = [calls EXCEPT ![p] =
                             Append(@, Call("forward", <<0, Len(batch[p])>>))]
              /\ total_loss' = [total_loss EXCEPT ![p] = LossFn(batch[p])]
              /\ local_loss' = local_loss
         ELSE LET lo == Min(ChunkLo(ii[p]), Len(batch[p]))
                  hi == Min(ChunkHi(ii[p]), Len(batch[p]))
              IN  /\ calls' = [calls EXCEPT ![p] =
                                 Append(@, Call("forward", <<lo, hi>>))]
                  /\ local_loss' = [local_loss EXCEPT ![p] =
                                      LocalLoss(Slice(batch[p], ChunkLo(ii[p]),
                                                      ChunkHi(ii[p])))]
                  /\ total_loss' = total_loss
    /\ pc' = [pc EXCEPT ![p] = "backward"]
    /\ UNCHANGED <<cfgVars, meterVars, logged, err, epoch, i, step, ii, batch, losses_m,
                   batch_time_m, data_time_m, grad, sched, steps, sink,
                   evalHist, eval_loss>>

\* backward(loss, scaler).  Under data or sharded parallelism the backward
\* pass reduces gradients across the processes: it completes once every
\* process has reached it.  c is the gradient this pass adds, per block.
Backward ==
    /\ \A p \in Procs : pc[p] = "backward"
    /\ \E c \in [Procs -> env.grads] :
         grad' = [p \in Procs |->
                    [grad[p] EXCEPT !.d = [k \in Procs |->
                        IF k \in View(p) THEN @[k] + LossScale * c[k] ELSE @[k]]]]
    /\ calls' = [p \in Procs |->
                   Append(calls[p],
                          Call("backward", <<IF env.scaler THEN 1 ELSE 0>>))]
    /\ IF args.accum_freq = 1
         THEN /\ pc' = [p \in Procs |-> "clip"]
              /\ UNCHANGED <<total_loss, ii>>
         ELSE /\ total_loss' = [p \in Procs |->
                                  IF ii[p] = 0 THEN local_loss[p]
                                  ELSE RAdd(total_loss[p], local_loss[p])]
              /\ ii' = [p \in Procs |-> ii[p] + 1]
              /\ pc' = [p \in Procs |->
                          IF ii[p] + 1 < args.accum_freq THEN "forward" ELSE "clip"]
    /\ UNCHANGED <<cfgVars, meterVars, logged, err, epoch, i, step, batch, local_loss,
                   losses_m, batch_time_m, data_time_m, sched, steps, sink,
                   evalHist, eval_loss>>

\* the clipping that reduces the norm over all processes is requested
UsesShardedClip == ~env.scaler /\ args.grad_clip_norm # None /\ env.fsdp

\* torch.nn.utils.clip_grad_norm_: the norm of the gradients this process holds
ClipLocal(g, p) == ClipBy(g[p], LocalNormSq(g, p))

\* model.clip_grad_norm_ of the sharded wrapper: the norm reduced over all
\* processes
ClipSharded(g, p) == ClipBy(g[p], SumLocalNormSq(g, Procs))

\* the gradients clipped first and unscaled afterwards
ClipThenUnscale == <<Call("clip_grad_norm_", <<0>>), Call("unscale_", <<>>)>>

\* scaler.unscale_(optimizer); torch.nn.utils.clip_grad_norm_(...)
ScalerClipCalls == <<Call("unscale_", <<>>), Call("clip_grad_norm_", <<0>>)>>

\* the clipping part of "if scaler is not None: ... else: ...", all paths
\* but the sharded wrapper's own clip_grad_norm_
Clip(p) ==
    /\ pc[p] = "clip"
    /\ ~UsesShardedClip
    /\ IF args.grad_clip_norm = None
         THEN UNCHANGED <<grad, calls>>
         ELSE IF env.scaler
           THEN LET g == [grad EXCEPT ![p] = Unscale(@)]
                IN  /\ grad' = [grad EXCEPT ![p] = ClipLocal(g, p)]
                    /\ calls' = [calls EXCEPT ![p] = @ \o ScalerClipCalls]
           ELSE /\ grad' = [grad EXCEPT ![p] = ClipLocal(grad, p)]
                /\ calls' = [calls EXCEPT ![p] =
                               Append(@, Call("clip_grad_norm_", <<0>>))]
    /\ pc' = [pc EXCEPT ![p] = "opt"]
    /\ UNCHANGED <<cfgVars, meterVars, logged, err, epoch, i, step, ii, batch,
                   local_loss, total_loss, losses_m, batch_time_m, data_time_m,
                   sched, steps, sink, evalHist, eval_loss>>

\* model.clip_grad_norm_(args.grad_clip_norm) on the sharded wrapper: a
\* collective, completed by all processes together
ClipFSDP ==
    /\ UsesShardedClip
    /\ \A p \in Procs : pc[p] = "clip"
    /\ grad' = [p \in Procs |-> ClipSharded(grad, p)]
    /\ calls' = [p \in Procs |-> Append(calls[p], Call("clip_grad_norm_", <<1>>))]
    /\ pc' = [p \in Procs |-> "opt"]
    /\ UNCHANGED <<cfgVars, meterVars, logged, err, epoch, i, step, ii, batch,
                   local_loss, total_loss, losses_m, batch_time_m, data_time_m,
                   sched, steps, sink, evalHist, eval_loss>>

HasCall(cs, op) == \E k \in 1 .. Len(cs) : cs[k].op = op

\* a step that goes through the scaler and then steps the optimizer again
OptCallsBoth == IF env.scaler
                  THEN <<Call("scaler.step", <<>>), Call("scaler.update", <<>>),
                         Call("optimizer.step", <<>>)>>
                  ELSE <<Call("optimizer.step", <<>>)>>

\* scaler.step(optimizer); scaler.update()  /  optimizer.step()
OptCalls == IF env.scaler
              THEN <<Call("scaler.step", <<>>), Call("scaler.update", <<>>)>>
              ELSE <<Call("optimizer.step", <<>>)>>

\* the optimizer step; scaler.step unscales gradients not yet unscaled
OptStep(p) ==
    /\ pc[p] = "opt"
    /\ calls' = [calls EXCEPT ![p] = @ \o OptCalls]
    /\ grad' = [grad EXCEPT ![p] =
                  IF env.scaler /\ ~HasCall(calls[p], "unscale_")
                    THEN Unscale(@) ELSE @]
    /\ pc' = [pc EXCEPT ![p] = "log"]
    /\ UNCHANGED <<cfgVars, meterVars, logged, err, epoch, i, step, ii, batch,
                   local_loss, total_loss, losses_m, batch_time_m, data_time_m,
                   sched, steps, sink, evalHist, eval_loss>>

\* the log condition without the coordinator test
LogsHereAnyProcess(p) ==
    i[p] % args.log_every_n_steps = 0 \/ i[p] + 1 = env.num_batches

\* is_master(args) and (i % args.log_every_n_steps == 0
\*                      or batch_count == num_batches_per_epoch)
LogsHere(p) ==
    /\ is_master(p)
    /\ i[p] % args.log_every_n_steps = 0 \/ i[p] + 1 = env.num_batches

\* losses_m updated on every batch of every process
LossUpdatedEveryBatch(p) == TRUE

\* losses_m.update(total_loss.item(), batch_size) is a statement of the
\* logging branch
LossUpdated(p) == LogsHere(p)

\* batch_time_m.update; the logging branch; back to the loop head
Log(p) ==
    /\ pc[p] = "log"
    /\ \E dt \in env.dts :
         LET bt      == Update(batch_time_m[p], RInt(dt), 1)
             console == <<Rec("console", "train", step[p], 1)>>
             tb(n)   == IF p \in env.writer
                          THEN <<Rec("tb", "train", step[p], n)>> ELSE <<>>
             wb      == IF args.wandb
                          THEN <<Rec("wandb", "train", step[p], NumTrainMetrics)>>
                          ELSE <<>>
         IN  /\ losses_m' = [losses_m EXCEPT ![p] =
                               IF LossUpdated(p)
                                 THEN Update(@, total_loss[p], Len(batch[p]))
                                 ELSE @]
             /\ IF ~LogsHere(p)
               THEN /\ batch_time_m' = [batch_time_m EXCEPT ![p] = bt]
                    /\ i' = [i EXCEPT ![p] = @ + 1]
                    /\ pc' = [pc EXCEPT ![p] = "loop"]
                    /\ UNCHANGED <<data_time_m, sink, err, logged>>
               ELSE /\ logged' = [logged EXCEPT ![p] =
                                    Append(@, <<total_loss[p], Len(batch[p])>>)]
                    /\ IF args.wandb /\ ~env.wandb_installed
                         THEN \* the assertion fails in the first round of
                              \* "for name, val in log_data.items()"
                              /\ sink' = [sink EXCEPT ![p] = @ \o console \o tb(1)]
                              /\ batch_time_m' = [batch_time_m EXCEPT ![p] = bt]
                              /\ pc' = [pc EXCEPT ![p] = "failed"]
                              /\ err' = [err EXCEPT ![p] =
                                           "AssertionError: Please install wandb."]
                              /\ UNCHANGED <<data_time_m, i>>
                         ELSE /\ sink' = [sink EXCEPT ![p] =
                                            @ \o console \o tb(NumTrainMetrics) \o wb]
                              /\ batch_time_m' = [batch_time_m EXCEPT ![p] = Reset]
                              /\ data_time_m' = [data_time_m EXCEPT ![p] = Reset]
                              /\ i' = [i EXCEPT ![p] = @ + 1]
                              /\ pc' = [pc EXCEPT ![p] = "loop"]
                              /\ err' = err
    /\ UNCHANGED <<cfgVars, meterVars, epoch, step, ii, batch, local_loss,
                   total_loss, grad, calls, sched, steps, evalHist, eval_loss>>

\* ---------------------------------------------------------------- evaluate
\* the weight of a batch taken as 1
EvalWeightOne(b) == 1

\* inputs.shape[0]: the number of sequences of the batch
EvalWeight(b) == Len(b)

\* tokens of one input sequence: texts[:, : args.seq_len - 1]
InputWidth == Min(env.text_width, args.seq_len - 1)

\* evaluate(model, data, completed_epoch, args, writer), up to the loop
EvalBegin(p) ==
    /\ pc[p] = "eval_call"
    /\ sink' = [sink EXCEPT ![p] =
                  IF is_master(p)
                    THEN Append(@, Rec("stdout", "valid", epoch[p] + 1, 1)) ELSE @]
    /\ losses_m' = [losses_m EXCEPT ![p] = Reset]
    /\ batch_time_m' = [batch_time_m EXCEPT ![p] = Reset]
    /\ data_time_m' = [data_time_m EXCEPT ![p] = Reset]
    /\ i' = [i EXCEPT ![p] = 0]
    /\ evalHist' = [evalHist EXCEPT ![p] = <<>>]
    /\ pc' = [pc EXCEPT ![p] = "eval_loop"]
    /\ UNCHANGED <<cfgVars, meterVars, logged, err, epoch, step, ii, batch, local_loss,
                   total_loss, grad, calls, sched, steps, eval_loss>>

\* one round of the evaluation loop
EvalBatch(p) ==
    /\ pc[p] = "eval_loop"
    /\ i[p] < env.val_len
    /\ \E b \in Batches(env.val_rows, env.val_losses), dt \in env.dts, dt2 \in env.dts :
         /\ dt <= dt2
         /\ batch' = [batch EXCEPT ![p] = b]
         /\ data_time_m' = [data_time_m EXCEPT ![p] = Update(@, RInt(dt), 1)]
         /\ total_loss' = [total_loss EXCEPT ![p] = LossFn(b)]
         /\ losses_m' = [losses_m EXCEPT ![p] = Update(@, LossFn(b), EvalWeight(b))]
         /\ batch_time_m' = [batch_time_m EXCEPT ![p] = Update(@, RInt(dt2), 1)]
         /\ evalHist' = [evalHist EXCEPT ![p] = Append(@, <<LossFn(b), Len(b)>>)]
    /\ i' = [i EXCEPT ![p] = @ + 1]
    /\ UNCHANGED <<cfgVars, meterVars, logged, pc, err, epoch, step, ii, local_loss,
                   grad, calls, sched, steps, sink, eval_loss>>

\* after the loop: log_data, the sinks, the perplexity line, return; then
\* the caller goes on to the next epoch
EvalEnd(p) ==
    /\ pc[p] = "eval_loop"
    /\ i[p] >= env.val_len
    /\ LET e     == epoch[p] + 1
           tb(n) == IF p \in env.writer
                      THEN <<Rec("tb", "valid", e, n)>> ELSE <<>>
           wb    == IF args.wandb /\ is_master(p)
                      THEN <<Rec("wandb", "valid", e, NumEvalMetrics)>> ELSE <<>>
           out   == IF is_master(p)
                      THEN <<Rec("stdout", "valid", e, 1)>> ELSE <<>>
       IN  IF args.wandb /\ is_master(p) /\ ~env.wandb_installed
             THEN /\ sink' = [sink EXCEPT ![p] = @ \o tb(1)]
                  /\ pc' = [pc EXCEPT ![p] = "failed"]
                  /\ err' = [err EXCEPT ![p] =
                               "AssertionError: Please install wandb."]
                  /\ UNCHANGED <<eval_loss, epoch>>
             ELSE /\ sink' = [sink EXCEPT ![p] =
                                @ \o tb(NumEvalMetrics) \o wb \o out]
                  /\ eval_loss' = [eval_loss EXCEPT ![p] = losses_m[p].avg]
                  /\ epoch' = [epoch EXCEPT ![p] = e]
                  /\ pc' = [pc EXCEPT ![p] =
                              IF e < args.epochs THEN "train_call" ELSE "done"]
                  /\ err' = err
    /\ UNCHANGED <<cfgVars, meterVars, logged, i, step, ii, batch, local_loss,
                   total_loss, losses_m, batch_time_m, data_time_m, grad, calls,
                   sched, steps, evalHist>>

\* ------------------------------------------------- a stand-alone AverageMeter
MeterVals == {RInt(a) : a \in (-1) .. MaxVal} \cup {<<1, 2>>}

MeterReset ==
    /\ meter' = Reset
    /\ hist' = <<>>
    /\ meterErr' = FALSE
    /\ UNCHANGED <<cfgVars, procVars>>

MeterUpdate ==
    /\ Len(hist) < MaxUpdates
    /\ \E v \in MeterVals, n \in 0 .. MaxWeight :
         /\ meter' = Update(meter, v, n)
         /\ hist' = Append(hist, <<v, n>>)
         /\ meterErr' = UpdateRaises(meter, n)
    /\ UNCHANGED <<cfgVars, procVars>>

\* ------------------------------------------------------ initial states
MaxWorld == 2        \* processes of the job
MaxLogEvery == 2     \* args.log_every_n_steps

MkArgs(bs, af, clip, skip, logn, ws, wb, ep, sl) ==
    [batch_size |-> bs, accum_freq |-> af, grad_clip_norm |-> clip,
     skip_scheduler |-> skip, log_every_n_steps |-> logn, world_size |-> ws,
     wandb |-> wb, epochs |-> ep, seq_len |-> sl]

MkEnv(sc, fs, inst, wr, nb, tl, vl, rows, vrows, losses, dts, grads, tw) ==
    [scaler |-> sc, loss_scale |-> 2, fsdp |-> fs, wandb_installed |-> inst,
     writer |-> wr, num_batches |-> nb, train_len |-> tl, val_len |-> vl,
     rows |-> rows, val_rows |-> vrows, losses |-> losses, val_losses |-> {1},
     dts |-> dts, grads |-> grads, text_width |-> tw]

\* main() before the epoch loop: every process about to call
\* train_one_epoch for epoch 0
InitProcs(start) ==
    /\ pc = [p \in Procs |-> start]
    /\ err = [p \in Procs |-> ""]
    /\ epoch = [p \in Procs |-> 0]
    /\ i = [p \in Procs |-> 0]
    /\ step = [p \in Procs |-> 0]
    /\ ii = [p \in Procs |-> 0]
    /\ batch = [p \in Procs |-> <<>>]
    /\ local_loss = [p \in Procs |-> RInt(0)]
    /\ total_loss = [p \in Procs |-> RInt(0)]
    /\ losses_m = [p \in Procs |-> Reset]
    /\ batch_time_m = [p \in Procs |-> Reset]
    /\ data_time_m = [p \in Procs |-> Reset]
    /\ grad = [p \in Procs |-> ZeroGrad]
    /\ calls = [p \in Procs |-> <<>>]
    /\ sched = [p \in Procs |-> <<>>]
    /\ steps = [p \in Procs |-> <<>>]
    /\ sink = [p \in Procs |-> <<>>]
    /\ evalHist = [p \in Procs |-> <<>>]
    /\ eval_loss = [p \in Procs |-> RInt(0)]
    /\ logged = [p \in Procs |-> <<>>]

InitMeter ==
    /\ meter = Reset
    /\ hist = <<>>
    /\ meterErr = FALSE

\* one process, the step executor varied: accumulation, batch size, the
\* batch's own length, scaler, clipping, sharding
StepConfigs ==
    {<<MkArgs(bs, af, clip, FALSE, 1, 1, FALSE, 1, 3),
       MkEnv(sc, fs, TRUE, {}, 2, 2, 1, {r}, {1}, {1}, {1}, {1}, 2)>> :
        bs \in 1 .. MaxRows, af \in 1 .. MaxAccum, clip \in {None, 1},
        sc \in BOOLEAN, fs \in BOOLEAN, r \in 1 .. MaxRows}

\* the scenario of the documentation: batch_size 8, accum_freq 4, seq_len 16
ScenarioConfigs ==
    {<<MkArgs(8, 4, clip, FALSE, 1, 1, FALSE, 1, 16),
       MkEnv(sc, FALSE, TRUE, {}, 1, 1, 1, {8}, {1}, {1}, {1}, {1}, 17)>> :
        clip \in {None, 1}, sc \in BOOLEAN}

\* one process, the epoch loop varied: scheduler, epochs, the advertised and
\* the actual number of batches, logging cadence
LoopConfigs ==
    {<<MkArgs(2, af, None, skip, logn, 1, FALSE, ep, 3),
       MkEnv(FALSE, FALSE, TRUE, {}, nb, tl, 1, {2}, {1}, {1}, {1}, {1}, 2)>> :
        af \in {1, 2}, skip \in BOOLEAN, logn \in 1 .. MaxLogEvery,
        ep \in 1 .. MaxEpochs, nb \in 1 .. MaxStream, tl \in 0 .. MaxStream}

\* several processes, the step executor varied
DistStepConfigs ==
    {<<MkArgs(2, af, clip, FALSE, 1, ws, FALSE, 1, 3),
       MkEnv(sc, fs, TRUE, {}, 1, 1, 1, {2}, {1}, {1}, {1}, {1}, 2)>> :
        ws \in 2 .. MaxWorld, af \in {1, 2}, clip \in {None, 1},
        sc \in BOOLEAN, fs \in BOOLEAN}

\* several processes, the sinks varied: writers, wandb, cadence, epochs
DistSinkConfigs ==
    {<<MkArgs(2, 1, None, FALSE, logn, ws, wb, ep, 3),
       MkEnv(FALSE, FALSE, inst, wr, 2, 2, 1, {2}, {1}, {1}, {1}, {1}, 2)>> :
        ws \in 2 .. MaxWorld, logn \in {1, 2}, wb \in BOOLEAN, ep \in {1, 2},
        inst \in BOOLEAN, wr \in SUBSET (0 .. MaxWorld - 1)}

\* wandb requested, installed or not, with and without training batches
\* before the evaluation
WandbConfigs ==
    {<<MkArgs(2, 1, None, FALSE, 1, ws, TRUE, 1, 3),
       MkEnv(FALSE, FALSE, inst, {}, tl, tl, 1, {2}, {1}, {1}, {1}, {1}, 2)>> :
        ws \in 1 .. MaxWorld, inst \in BOOLEAN, tl \in {0, 1}}

Configs == StepConfigs \cup ScenarioConfigs \cup LoopConfigs
             \cup DistStepConfigs \cup DistSinkConfigs \cup WandbConfigs

WellFormed(c) == c[2].writer \subseteq 0 .. (c[1].world_size - 1)

Init ==
    /\ \E c \in Configs : WellFormed(c) /\ args = c[1] /\ env = c[2]
    /\ InitProcs("train_call")
    /\ InitMeter

Next ==
    \/ \E p \in Procs : TrainBegin(p)
    \/ \E p \in Procs : Fetch(p)
    \/ \E p \in Procs : TrainEnd(p)
    \/ \E p \in Procs : AssertDivisible(p)
    \/ \E p \in Procs : Forward(p)
    \/ Backward
    \/ \E p \in Procs : Clip(p)
    \/ ClipFSDP
    \/ \E p \in Procs : OptStep(p)
    \/ \E p \in Procs : Log(p)
    \/ \E p \in Procs : EvalBegin(p)
    \/ \E p \in Procs : EvalBatch(p)
    \/ \E p \in Procs : EvalEnd(p)

Spec == Init /\ [][Next]_vars

\* one process and one batch per epoch, the loss values of the sequences
\* varied
LossConfigs ==
    {<<MkArgs(bs, af, cf[1], FALSE, 1, 1, FALSE, 1, 3),
       MkEnv(FALSE, cf[2], TRUE, {}, 1, 1, 1, {r}, {1}, 1 .. MaxLoss, {1}, {1}, 2)>> :
        bs \in 1 .. MaxRows, af \in 1 .. MaxAccum, r \in 1 .. MaxRows,
        cf \in {<<None, FALSE>>, <<1, TRUE>>}}

InitLoss ==
    /\ \E c \in LossConfigs : args = c[1] /\ env = c[2]
    /\ InitProcs("train_call")
    /\ InitMeter

SpecLoss == InitLoss /\ [][Next]_vars

\* one process, the validation stream varied: its length, the sizes and
\* losses of its batches, the width of a sequence
EvalConfigs ==
    {<<MkArgs(2, tr[1], tr[2], FALSE, 1, 1, FALSE, 1, 3),
       [MkEnv(FALSE, tr[3], TRUE, {}, 1, 1, vl, {2}, 1 .. MaxValRows, {1}, {1},
              {1}, tw) EXCEPT !.val_losses = 1 .. MaxLoss]>> :
        tr \in {<<1, None, FALSE>>, <<2, 1, TRUE>>, <<3, None, FALSE>>},
        vl \in 0 .. MaxValStream, tw \in {1, 3}}

InitEval ==
    /\ \E c \in EvalConfigs : args = c[1] /\ env = c[2]
    /\ InitProcs("train_call")
    /\ InitMeter

SpecEval == InitEval /\ [][Next]_vars

\* the gradients and the clipping threshold varied, on one process and on
\* several
ClipConfigs ==
    {<<MkArgs(2, IF ws = 1 THEN af ELSE 1, clip, FALSE, 1, ws, FALSE, 1, 3),
       MkEnv(sc, fs, TRUE, {}, 1, 1, 1, {2}, {1}, {1}, {1}, 0 .. MaxGrad, 2)>> :
        ws \in 1 .. MaxWorld, af \in {1, 2}, clip \in {None} \cup (1 .. MaxClip),
        sc \in BOOLEAN, fs \in BOOLEAN}

InitClip ==
    /\ \E c \in ClipConfigs : args = c[1] /\ env = c[2]
    /\ InitProcs("train_call")
    /\ InitMeter

SpecClip == InitClip /\ [][Next]_vars

\* whole runs: the lengths of the two streams and the number of epochs
\* varied on one process; one batch per stream on several processes, with a
\* sharded model, clipping, a writer on every process and wandb
LiveConfigs ==
    {<<MkArgs(2, af, None, FALSE, 1, 1, FALSE, ep, 3),
       MkEnv(FALSE, FALSE, TRUE, {}, nb, tl, vl, {2}, {1}, {1}, {1}, {1}, 2)>> :
        af \in {1, 2}, ep \in 1 .. MaxEpochs, tl \in 0 .. MaxStream,
        nb \in {2, 3}, vl \in 0 .. MaxValStream}
    \cup
    {<<MkArgs(2, 1, 1, FALSE, 1, ws, TRUE, 1, 3),
       MkEnv(FALSE, TRUE, TRUE, 0 .. (ws - 1), 1, 1, 1, {2}, {1}, {1}, {1}, {1}, 2)>> :
        ws \in 2 .. MaxWorld}

InitLive ==
    /\ \E c \in LiveConfigs : args = c[1] /\ env = c[2]
    /\ InitProcs("train_call")
    /\ InitMeter

\* every process keeps running: a step that is possible is eventually taken
SpecLive == InitLive /\ [][Next]_vars /\ WF_vars(Next)

\* the losses and sizes of the batches and the logging cadence varied on one
\* process; the cadence varied on several, with a sharded model and clipping
LogConfigs ==
    {<<MkArgs(2, 1, None, FALSE, logn, 1, FALSE, 1, 3),
       MkEnv(FALSE, FALSE, TRUE, {}, tl, tl, 0, {1, 2}, {1}, 1 .. MaxLoss, {1}, {1}, 2)>> :
        logn \in 1 .. MaxLogEvery, tl \in 1 .. MaxStream}
    \cup
    {<<MkArgs(2, 2, 1, FALSE, logn, ws, FALSE, 1, 3),
       MkEnv(FALSE, TRUE, TRUE, {}, 2, 2, 1, {2}, {1}, {1}, {1}, {1}, 2)>> :
        logn \in 1 .. MaxLogEvery, ws \in 2 .. MaxWorld}

InitLog ==
    /\ \E c \in LogConfigs : args = c[1] /\ env = c[2]
    /\ InitProcs("train_call")
    /\ InitMeter

SpecLog == InitLog /\ [][Next]_vars

\* the AverageMeter alone, driven by arbitrary update and reset calls
InitMeterOnly ==
    /\ args = MkArgs(1, 1, None, FALSE, 1, 1, FALSE, 1, 2)
    /\ env = MkEnv(FALSE, FALSE, TRUE, {}, 1, 1, 1, {1}, {1}, {1}, {1}, {1}, 1)
    /\ InitProcs("done")
    /\ InitMeter

NextMeter == MeterReset \/ MeterUpdate

SpecMeter == InitMeterOnly /\ [][NextMeter]_vars

\* ================================================================== claims
CountOp(cs, op) == Cardinality({k \in 1 .. Len(cs) : cs[k].op = op})

\* positions of the calls of cs named op, in order
RECURSIVE Select(_, _)
Select(cs, op) ==
    IF cs = <<>> THEN <<>>
    ELSE (IF Head(cs).op = op THEN <<Head(cs)>> ELSE <<>>) \o Select(Tail(cs), op)

FirstIndex(cs, op) ==
    IF HasCall(cs, op) THEN CHOOSE k \in 1 .. Len(cs) :
                              /\ cs[k].op = op
                              /\ \A j \in 1 .. (k - 1) : cs[j].op # op
    ELSE Len(cs) + 1

RECURSIVE SumVN(_)
SumVN(h) == IF h = <<>> THEN RInt(0)
            ELSE RAdd(RMul(Head(h)[1], RInt(Head(h)[2])), SumVN(Tail(h)))

RECURSIVE SumN(_)
SumN(h) == IF h = <<>> THEN 0 ELSE Head(h)[2] + SumN(Tail(h))

\* C1: after any non-empty sequence of update(v_i, n_i) calls on a fresh or
\* freshly reset meter, the last of which returned, avg = sum(v_i * n_i) /
\* sum(n_i), sum = sum(v_i * n_i), count = sum(n_i) and val = the last v_i.
C1_MeterAverage ==
    (hist # <<>> /\ ~meterErr) =>
        /\ meter.avg = RDiv(SumVN(hist), RInt(SumN(hist)))
        /\ meter.sum = SumVN(hist)
        /\ meter.count = SumN(hist)
        /\ meter.val = hist[Len(hist)][1]

\* three updates with different weights and values, after a reset
C1_Witness ==
    /\ Len(hist) = 3
    /\ ~meterErr
    /\ hist[1][2] # hist[2][2]
    /\ hist[1][1] # hist[3][1]
    /\ meter.avg = <<3, 4>>

NonDivisible == args.accum_freq > 1 /\ args.batch_size % args.accum_freq # 0

StepOps == {"forward", "backward", "unscale_", "clip_grad_norm_",
            "scaler.step", "scaler.update", "optimizer.step"}

\* C2: when accum_freq > 1 does not divide batch_size, a process that takes
\* a batch fails with the assertion error, having made no forward pass, no
\* backward pass and no optimizer step for it.
C2_AssertBeforeForward ==
    NonDivisible =>
        \A p \in Procs :
            /\ \A k \in 1 .. Len(calls[p]) : calls[p][k].op \notin StepOps
            /\ pc[p] \notin {"forward", "backward", "clip", "opt", "log"}
            /\ (steps[p] # <<>> /\ pc[p] # "assert") =>
                   /\ pc[p] = "failed"
                   /\ err[p] = "AssertionError: Batch size must be divisible by accum_freq"

\* a process has taken a batch, zeroed the gradients and failed the assertion
C2_Witness ==
    /\ NonDivisible
    /\ \E p \in Procs :
         /\ pc[p] = "failed"
         /\ HasCall(calls[p], "zero_grad")
         /\ Len(batch[p]) = args.batch_size

\* C3: when accum_freq = F > 1 divides the batch size B and the batch holds
\* B sequences, a completed step has made exactly F forward passes, over F
\* contiguous chunks of B / F sequences in which every sequence of the batch
\* lies exactly once, exactly F backward calls, one per chunk, and then one
\* optimizer step.
C3_ChunkPartition ==
    \A p \in Procs :
        (/\ pc[p] = "log"
         /\ args.accum_freq > 1
         /\ args.batch_size % args.accum_freq = 0
         /\ Len(batch[p]) = args.batch_size) =>
            LET F  == args.accum_freq
                B  == args.batch_size
                fw == Select(calls[p], "forward")
                cs == calls[p]
            IN  /\ Len(fw) = F
                /\ \A k \in 1 .. Len(fw) :
                       /\ fw[k].arg[2] - fw[k].arg[1] = B \div F
                       /\ fw[k].arg[1] = IF k = 1 THEN 0 ELSE fw[k - 1].arg[2]
                /\ \A x \in 0 .. (B - 1) :
                       Cardinality({k \in 1 .. Len(fw) :
                                      fw[k].arg[1] <= x /\ x < fw[k].arg[2]}) = 1
                /\ CountOp(cs, "backward") = F
                /\ \A k \in 1 .. (Len(cs) - 1) :
                       cs[k].op = "forward" => cs[k + 1].op = "backward"
                /\ CountOp(cs, "optimizer.step") + CountOp(cs, "scaler.step") = 1
                /\ \A k \in 1 .. Len(cs) :
                       cs[k].op \in {"optimizer.step", "scaler.step"} =>
                           \A j \in 1 .. Len(cs) :
                               cs[j].op \in {"forward", "backward"} => j < k

\* the documented scenario: batch_size 8, accum_freq 4, a step completed
C3_Witness ==
    /\ args.batch_size = 8
    /\ args.accum_freq = 4
    /\ \E p \in Procs :
         /\ pc[p] = "log"
         /\ Len(batch[p]) = 8
         /\ Select(calls[p], "forward")[3].arg = <<4, 6>>

\* C4: in every configuration, a batch whose step has been executed has had
\* exactly one optimizer step requested: scaler.step directly followed by
\* scaler.update when a scaler is present, optimizer.step when it is absent,
\* never both; the gradients were zeroed exactly once, before the first
\* backward call.  No batch ever sees a second step or a second zeroing.
C4_OneOptimizerStep ==
    \A p \in Procs :
        LET cs == calls[p]
            nScaler == CountOp(cs, "scaler.step")
            nPlain  == CountOp(cs, "optimizer.step")
        IN  /\ nScaler + nPlain <= 1
            /\ CountOp(cs, "zero_grad") <= 1
            /\ HasCall(cs, "backward") =>
                   FirstIndex(cs, "zero_grad") < FirstIndex(cs, "backward")
            /\ pc[p] = "log" =>
                   /\ CountOp(cs, "zero_grad") = 1
                   /\ HasCall(cs, "backward")
                   /\ IF env.scaler
                        THEN /\ nScaler = 1 /\ nPlain = 0
                             /\ CountOp(cs, "scaler.update") = 1
                             /\ cs[Len(cs) - 1].op = "scaler.step"
                             /\ cs[Len(cs)].op = "scaler.update"
                        ELSE /\ nPlain = 1 /\ nScaler = 0
                             /\ CountOp(cs, "scaler.update") = 0
                             /\ cs[Len(cs)].op = "optimizer.step"

\* a step completed with accumulation, a scaler, clipping and a sharded model
C4_Witness ==
    /\ env.scaler /\ env.fsdp
    /\ args.accum_freq > 1
    /\ args.grad_clip_norm # None
    /\ \E p \in Procs : pc[p] = "log" /\ CountOp(calls[p], "backward") = args.accum_freq

\* C5: with skip_scheduler the learning-rate schedule is never invoked, over
\* any number of epochs and batches; without it the schedule is invoked
\* exactly once per batch, with the batch's step counter, before anything
\* else is done for the batch.
C5_SchedulerCalls ==
    \A p \in Procs :
        IF args.skip_scheduler
          THEN /\ sched[p] = <<>>
               /\ ~HasCall(calls[p], "scheduler")
          ELSE /\ sched[p] = steps[p]
               /\ CountOp(calls[p], "scheduler") <= 1
               /\ calls[p] # <<>> =>
                      /\ calls[p][1] = Call("scheduler", <<step[p]>>)
                      /\ sched[p][Len(sched[p])] = step[p]
                      /\ ~HasCall(SubSeq(calls[p], 2, Len(calls[p])), "scheduler")
               /\ pc[p] \in {"assert", "forward", "backward", "clip", "opt", "log"} =>
                      /\ step[p] = env.num_batches * epoch[p] + i[p]
                      /\ calls[p] # <<>>

\* two epochs of several batches have run with skip_scheduler set
C5_Witness ==
    /\ args.skip_scheduler
    /\ \E p \in Procs : pc[p] = "done" /\ epoch[p] = 2 /\ Len(steps[p]) >= 4

\* every process is past the clipping of the same batch and has not yet
\* zeroed the gradients again
AllClipped == \A p \in Procs : pc[p] \in {"opt", "log"}

MaxNormSq == RInt(args.grad_clip_norm * args.grad_clip_norm)

\* C6: whenever grad_clip_norm is set, in every path (scaler or not, sharded
\* or not) the gradients the optimizer step uses have an L2 norm, taken over
\* all parameters on all processes, of at most the threshold.
C6_GlobalNormClipped ==
    (args.grad_clip_norm # None /\ AllClipped) =>
        /\ RLeq(GlobalNormSq(grad), MaxNormSq)
        /\ ~env.fsdp => \A p \in Procs : RLeq(LocalNormSq(grad, p), MaxNormSq)

\* the paths other than scaler-with-sharding do clip by the global norm
ClippedOutsideScalerSharded ==
    (args.grad_clip_norm # None /\ AllClipped /\ ~(env.scaler /\ env.fsdp /\ args.world_size > 1)) =>
        /\ RLeq(GlobalNormSq(grad), MaxNormSq)
        /\ ~env.fsdp => \A p \in Procs : RLeq(LocalNormSq(grad, p), MaxNormSq)

\* C7: when accum_freq = F > 1 divides the batch size B and the batch holds
\* B sequences, the total_loss the accumulation path ends with (the sum over
\* the chunks of the chunk's mean loss / F) equals the loss the
\* accum_freq = 1 path computes over the whole batch.
C7_AccumulatedLossIsBatchLoss ==
    \A p \in Procs :
        (/\ pc[p] \in {"clip", "opt", "log"}
         /\ Divisible
         /\ Len(batch[p]) = args.batch_size) =>
            total_loss[p] = RNorm(SumSeq(batch[p]), Len(batch[p]))

\* three chunks of a batch with unequal losses have been accumulated
C7_Witness ==
    /\ args.accum_freq = 3
    /\ args.batch_size = 3
    /\ \E p \in Procs :
         /\ pc[p] = "clip"
         /\ batch[p] = <<1, 2, 2>>
         /\ total_loss[p] = <<5, 3>>

RECURSIVE TokenLossSum(_, _)
TokenLossSum(h, w) ==
    IF h = <<>> THEN RInt(0)
    ELSE RAdd(RMul(Head(h)[1], RInt(Head(h)[2] * w)), TokenLossSum(Tail(h), w))

RECURSIVE TokenSum(_, _)
TokenSum(h, w) == IF h = <<>> THEN 0 ELSE Head(h)[2] * w + TokenSum(Tail(h), w)

EvalReturned(p) == pc[p] \in {"train_call", "done"} /\ evalHist[p] # <<>>

\* C8: the loss evaluate returns is the average of the batch losses of one
\* pass over the validation stream, each weighted by the number of input
\* tokens of its batch; when all batches have the same loss L it is L.
C8_EvalLossTokenWeighted ==
    \A p \in Procs :
        EvalReturned(p) =>
            LET h == evalHist[p]
            IN  /\ Len(h) = env.val_len
                /\ eval_loss[p] = RDiv(TokenLossSum(h, InputWidth),
                                       RInt(TokenSum(h, InputWidth)))
                /\ (\A k \in 1 .. Len(h) : h[k][1] = h[1][1]) => eval_loss[p] = h[1][1]

\* two batches of different sizes and different losses were evaluated
C8_Witness ==
    \E p \in Procs :
        /\ EvalReturned(p)
        /\ Len(evalHist[p]) = 2
        /\ evalHist[p][1] = <<RInt(1), 1>>
        /\ evalHist[p][2] = <<RInt(2), 2>>
        /\ eval_loss[p] = <<5, 3>>

\* C9: no process for which is_master(args) is false ever writes a record to
\* an external sink, in training or in evaluation.
C9_OnlyCoordinatorWrites ==
    \A p \in Procs : ~is_master(p) => sink[p] = <<>>

\* the training driver alone keeps to it
TrainSinksCoordinatorOnly ==
    \A p \in Procs : ~is_master(p) =>
        \A k \in 1 .. Len(sink[p]) : sink[p][k].phase # "train"

\* C10: the step values of the batches of a run are strictly increasing,
\* within an epoch and from one epoch to the next: no value is used twice.
C10_StepStrictlyIncreasing ==
    \A p \in Procs :
        \A a, b \in 1 .. Len(steps[p]) : a < b => steps[p][a] < steps[p][b]

\* it holds whenever no epoch's stream yields more batches than num_batches
StepIncreasingWithinAdvertisedLength ==
    env.train_len <= env.num_batches =>
        \A p \in Procs :
            \A a, b \in 1 .. Len(steps[p]) : a < b => steps[p][a] < steps[p][b]

\* the console lines train_one_epoch has written among the records s
TrainRecords(s) ==
    Cardinality({k \in 1 .. Len(s) : s[k].sink = "console" /\ s[k].phase = "train"})

\* batch i is the last one the stream yields in this epoch
FinalBatch(p) == i[p] + 1 = env.train_len

\* process p completes the logging part of the current batch in this step
LogStep(p) == pc[p] = "log" /\ pc'[p] # "log"

\* C11: on the coordinator, a batch gets a training log record if and only
\* if its index is a multiple of log_every_n_steps or it is the final batch
\* the stream yields in the epoch, and then exactly one record.
C11_LogOnCadence ==
    [][\A p \in Procs :
         (is_master(p) /\ LogStep(p)) =>
             TrainRecords(sink'[p]) - TrainRecords(sink[p]) =
                 IF i[p] % args.log_every_n_steps = 0 \/ FinalBatch(p)
                   THEN 1 ELSE 0]_vars

\* what the code does: the record goes with the index being a multiple of
\* log_every_n_steps or batch_count reaching dataloader.num_batches
LogOnAdvertisedCadence ==
    [][\A p \in Procs :
         LogStep(p) =>
             TrainRecords(sink'[p]) - TrainRecords(sink[p]) =
                 IF LogsHere(p) THEN 1 ELSE 0]_vars

\* the two agree when the stream yields num_batches batches
LogOnCadenceAdvertisedLength ==
    [][\A p \in Procs :
         (env.train_len = env.num_batches /\ is_master(p) /\ LogStep(p)) =>
             TrainRecords(sink'[p]) - TrainRecords(sink[p]) =
                 IF i[p] % args.log_every_n_steps = 0 \/ FinalBatch(p)
                   THEN 1 ELSE 0]_vars

\* batch i satisfies the cadence part of the log condition
OnCadence(p) ==
    i[p] % args.log_every_n_steps = 0 \/ i[p] + 1 = env.num_batches

\* index of the latest batch before batch i that satisfied the cadence, -1
\* if there is none
LastCadence(p) ==
    LET js == {j \in 0 .. (i[p] - 1) :
                 j % args.log_every_n_steps = 0 \/ j + 1 = env.num_batches}
    IN  IF js = {} THEN -1 ELSE CHOOSE j \in js : \A k \in js : k <= j

\* process p is inside train_one_epoch, past the creation of its meters
InEpoch(p) == pc[p] \in {"loop", "assert", "forward", "backward", "clip", "opt", "log"}

\* C12 as stated: at each batch on the logging cadence, on every process,
\* batch_time_m and data_time_m are reset to zero val/sum/count/avg and
\* losses_m is left as it was.
C12_ResetEveryProcess ==
    [][\A p \in Procs :
         (LogStep(p) /\ OnCadence(p) /\ pc'[p] = "loop") =>
             /\ batch_time_m'[p] = Reset
             /\ data_time_m'[p] = Reset
             /\ losses_m'[p] = losses_m[p]]_vars

\* C12, amended: at each log event (the coordinator, on the cadence)
\* batch_time_m and data_time_m are reset to zero val/sum/count/avg, having
\* covered exactly the batches since the previous log event, and losses_m is
\* not reset but updated with the batch's loss; losses_m is never reset
\* within the epoch.  A process that is not the coordinator has no log
\* event: its timing meters are never reset and cover all batches of the
\* epoch so far, and its losses_m is never touched.
C12_ResetAtLogEvent ==
    [][\A p \in Procs :
         /\ (LogStep(p) /\ pc'[p] = "loop") =>
              IF is_master(p) /\ OnCadence(p)
                THEN /\ batch_time_m'[p] = Reset
                     /\ data_time_m'[p] = Reset
                     /\ data_time_m[p].count = i[p] - LastCadence(p)
                     /\ batch_time_m[p].count = i[p] - LastCadence(p) - 1
                     /\ losses_m'[p].count = losses_m[p].count + Len(batch[p])
                     /\ losses_m'[p].sum =
                            RAdd(losses_m[p].sum,
                                 RMul(total_loss[p], RInt(Len(batch[p]))))
                ELSE /\ batch_time_m'[p].count = batch_time_m[p].count + 1
                     /\ data_time_m'[p] = data_time_m[p]
                     /\ losses_m'[p] = losses_m[p]
         /\ (InEpoch(p) /\ ~is_master(p)) =>
              /\ data_time_m[p].count = i[p] + (IF pc[p] = "loop" THEN 0 ELSE 1)
              /\ batch_time_m[p].count = i[p]
              /\ losses_m[p] = Reset
         /\ (InEpoch(p) /\ pc'[p] # "eval_loop") =>
              losses_m'[p].count >= losses_m[p].count]_vars

\* two processes have run the same two batches, both on the cadence: the
\* coordinator's timing meters are reset and its losses_m holds both batches,
\* the other process's timing meters hold both batches and its losses_m none
C12_Witness ==
    /\ args.world_size = 2
    /\ args.log_every_n_steps = 1
    /\ \A p \in Procs : pc[p] = "loop" /\ i[p] = 2 /\ epoch[p] = 0
    /\ batch_time_m[0] = Reset
    /\ data_time_m[0] = Reset
    /\ losses_m[0].count = 4
    /\ batch_time_m[1].count = 2
    /\ data_time_m[1].count = 2
    /\ losses_m[1] = Reset

\* the names of the backward, unscale, clip and optimizer calls of cs, in order
RECURSIVE OptimOps(_)
OptimOps(cs) ==
    IF cs = <<>> THEN <<>>
    ELSE (IF Head(cs).op \in StepOps \ {"forward"} THEN <<Head(cs).op>> ELSE <<>>)
             \o OptimOps(Tail(cs))

\* the order of a step under a gradient scaler
ScalerStepOrder ==
    [k \in 1 .. args.accum_freq |-> "backward"]
        \o (IF args.grad_clip_norm # None
              THEN <<"unscale_", "clip_grad_norm_">> ELSE <<>>)
        \o <<"scaler.step", "scaler.update">>

IsPrefix(s, t) == Len(s) <= Len(t) /\ s = SubSeq(t, 1, Len(s))

\* C13: with a gradient scaler, the calls of a step come in this order: all
\* backward passes, each on the scaled loss; then, only if grad_clip_norm is
\* set, scaler.unscale_ directly followed by the clipping; then scaler.step;
\* then scaler.update.  unscale_ is called at most once per step and the
\* clipping never comes without unscale_ just before it.
C13_ScalerOrder ==
    env.scaler =>
        \A p \in Procs :
            LET cs  == calls[p]
                ops == OptimOps(cs)
            IN  /\ IsPrefix(ops, ScalerStepOrder)
                /\ pc[p] = "log" => ops = ScalerStepOrder
                /\ pc[p] = "opt" => Len(ops) = Len(ScalerStepOrder) - 2
                /\ \A k \in 1 .. Len(cs) :
                       /\ cs[k].op = "backward" => cs[k].arg = <<1>>
                       /\ cs[k].op = "clip_grad_norm_" =>
                              k > 1 /\ cs[k - 1].op = "unscale_"
                /\ CountOp(cs, "unscale_") <= 1
                /\ args.grad_clip_norm = None => CountOp(cs, "unscale_") = 0

\* a step with a scaler, three accumulated chunks and clipping has completed
C13_Witness ==
    /\ env.scaler
    /\ args.grad_clip_norm # None
    /\ args.accum_freq = 3
    /\ \E p \in Procs :
         /\ pc[p] = "log"
         /\ OptimOps(calls[p]) = <<"backward", "backward", "backward", "unscale_",
                                   "clip_grad_norm_", "scaler.step", "scaler.update">>

\* process p is waiting in a collective operation for the other processes
AtCollective(p) == pc[p] = "backward" \/ (pc[p] = "clip" /\ UsesShardedClip)

\* process p has stopped: it raised, or it returned from the last call
Stopped(p) == pc[p] \in {"failed", "done"}

\* processes p and q are at the same place of the same batch
SamePlace(p, q) ==
    InEpoch(p) /\ pc[p] = pc[q] /\ epoch[p] = epoch[q] /\ i[p] = i[q]

SameStepCalls(p, q) ==
    /\ calls[p] = calls[q]
    /\ sched[p] = sched[q]
    /\ steps[p] = steps[q]

\* C14: whether a process is the coordinator changes only what it emits: at
\* the same place of the same batch any two processes have made the same
\* scheduler, forward, backward, clipping and optimizer calls, and no
\* process waits in a collective for a process that has stopped and will
\* never arrive.
C14_SameStepsEveryProcess ==
    \A p, q \in Procs :
        /\ SamePlace(p, q) => SameStepCalls(p, q)
        /\ AtCollective(p) => ~Stopped(q)

\* it holds unless the coordinator fails the wandb assertion
SameStepsUnlessWandbMissing ==
    (~args.wandb \/ env.wandb_installed) =>
        \A p, q \in Procs :
            /\ SamePlace(p, q) => SameStepCalls(p, q)
            /\ AtCollective(p) => ~Stopped(q)

\* wandb is requested and the module is not installed
WandbMissing == args.wandb /\ ~env.wandb_installed

WandbError == "AssertionError: Please install wandb."

\* C15: when args.wandb is set and wandb is not installed, the error
\* "Please install wandb." is raised at once, on every process: no process
\* executes an optimizer step or an evaluation batch, and none finishes the
\* run without it.
C15_WandbMissingSurfacedFirst ==
    WandbMissing =>
        \A p \in Procs :
            /\ ~HasCall(calls[p], "optimizer.step")
            /\ ~HasCall(calls[p], "scaler.step")
            /\ evalHist[p] = <<>>
            /\ pc[p] # "done"

\* what the code does: only the coordinator raises, in training at its first
\* log event, after the optimizer step of that batch, and in evaluation
\* after the pass over the validation stream; it never silently skips
\* the sink
WandbMissingSurfacedAtLog ==
    WandbMissing =>
        \A p \in Procs :
            /\ ~is_master(p) => err[p] = ""
            /\ \A k \in 1 .. Len(sink[p]) : sink[p][k].sink # "wandb"
            /\ is_master(p) =>
                   /\ pc[p] # "done"
                   /\ TrainRecords(sink[p]) <= 1
                   /\ pc[p] = "failed" =>
                          /\ err[p] = WandbError
                          /\ IF env.train_len > 0
                               THEN HasCall(calls[p], "optimizer.step") /\ evalHist[p] = <<>>
                               ELSE Len(evalHist[p]) = env.val_len

\* no assertion of the drivers can fail in this configuration
ErrorFree == (args.accum_freq = 1 \/ Divisible) /\ ~WandbMissing

\* the records evaluate has written to the sink named k among the records s
EvalRecords(s, k) ==
    Cardinality({j \in 1 .. Len(s) : s[j].sink = k /\ s[j].phase = "valid"})

\* process p returns from evaluate in this step
EvalReturns(p) == pc[p] = "eval_loop" /\ pc'[p] \in {"train_call", "done"}

\* steps one batch takes: fetch, assertion, a forward and a backward pass per
\* chunk, clipping, optimizer step, logging
BatchCost == 2 * args.accum_freq + 6

\* steps one epoch takes: train_one_epoch and evaluate
EpochCost == (1 + env.train_len * BatchCost + 1) + (1 + env.val_len + 1)

\* how far process p has come in the current epoch
Position(p) ==
    LET b == 1 + i[p] * BatchCost
        f == 2 * args.accum_freq
        e == 1 + env.train_len * BatchCost + 1
    IN  CASE pc[p] = "train_call" -> 0
          [] pc[p] = "loop"       -> b
          [] pc[p] = "assert"     -> b + 1
          [] pc[p] = "forward"    -> b + 2 + 2 * ii[p]
          [] pc[p] = "backward"   -> b + 3 + 2 * ii[p]
          [] pc[p] = "clip"       -> b + 2 + f
          [] pc[p] = "opt"        -> b + 3 + f
          [] pc[p] = "log"        -> b + 4 + f
          [] pc[p] = "eval_call"  -> e
          [] pc[p] = "eval_loop"  -> e + 1 + i[p]
          [] pc[p] = "done"       -> 0
          [] pc[p] = "failed"     -> 0

\* how far process p has come in the run; a failed process counts as at
\* the end
Progress(p) ==
    IF pc[p] = "failed" THEN args.epochs * EpochCost + 1
    ELSE epoch[p] * EpochCost + Position(p)

\* some process can take a step: every place but the two collectives lets
\* its process go on, a collective lets all go on once all have arrived
StepPossible ==
    \/ \E p \in Procs :
           \/ pc[p] \in {"train_call", "loop", "assert", "forward", "opt", "log",
                         "eval_call", "eval_loop"}
           \/ pc[p] = "clip" /\ ~UsesShardedClip
    \/ \A p \in Procs : pc[p] = "backward"
    \/ UsesShardedClip /\ \A p \in Procs : pc[p] = "clip"

\* C16: with finite streams and no failing assertion, every call of
\* train_one_epoch returns, after one step for each batch the stream yields,
\* in stream order (batch indices 0, 1, ..., each once, the stream never
\* restarted), and every call of evaluate returns, after one pass over the
\* validation stream, having written its log record once per sink, after
\* the last batch.  Termination: every step takes some process forward and
\* none backward, towards an end a bounded number of steps away, and as long
\* as a process has not returned from the last call some process can step.
C16_OnePassThenReturn ==
    /\ [](ErrorFree =>
            /\ (\A p \in Procs : pc[p] = "done") \/ StepPossible
            /\ \A p \in Procs :
                /\ pc[p] = "eval_loop" => i[p] <= env.val_len
                /\ InEpoch(p) =>
                       i[p] < env.train_len + (IF pc[p] = "loop" THEN 1 ELSE 0)
                /\ pc[p] = "eval_call" =>
                       /\ i[p] = env.train_len
                       /\ Len(steps[p]) = (epoch[p] + 1) * env.train_len
                       /\ \A k \in 1 .. env.train_len :
                              steps[p][epoch[p] * env.train_len + k] =
                                  env.num_batches * epoch[p] + (k - 1)
                /\ (pc[p] = "loop" /\ i[p] > 0) =>
                       CountOp(calls[p], "optimizer.step")
                           + CountOp(calls[p], "scaler.step") = 1
                /\ pc[p] = "done" =>
                       /\ epoch[p] = args.epochs
                       /\ Len(steps[p]) = args.epochs * env.train_len
                       /\ Len(evalHist[p]) = env.val_len)
    /\ [][/\ \A p \in Procs : Progress(p) <= Progress(p)'
          /\ \E p \in Procs : Progress(p) < Progress(p)'
          /\ \A p \in Procs : Progress(p)' <= args.epochs * EpochCost + 1]_vars
    /\ [][\A p \in Procs :
            /\ (pc[p] = "eval_loop" /\ ~EvalReturns(p)) => sink'[p] = sink[p]
            /\ EvalReturns(p) =>
                   /\ i[p] = env.val_len
                   /\ Len(evalHist[p]) = env.val_len
                   /\ EvalRecords(sink'[p], "tb") - EvalRecords(sink[p], "tb")
                          = IF p \in env.writer THEN 1 ELSE 0
                   /\ EvalRecords(sink'[p], "wandb") - EvalRecords(sink[p], "wandb")
                          = IF args.wandb /\ is_master(p) THEN 1 ELSE 0]_vars

\* the same termination as a liveness property, under fairness: in a run
\* where no assertion can fail every process returns from the last call
TerminatesUnderFairness == ErrorFree => <>(\A p \in Procs : pc[p] = "done")

\* StepPossible is the enabledness of Next
StepPossibleIsEnabled == StepPossible <=> ENABLED Next

\* two epochs of three batches each have run and both evaluations returned
C16_Witness ==
    /\ ErrorFree
    /\ env.train_len = 3
    /\ \E p \in Procs :
         /\ pc[p] = "done"
         /\ epoch[p] = 2
         /\ steps[p] = <<0, 1, 2, 3, 4, 5>>
         /\ Len(evalHist[p]) = env.val_len

\* C17: in train_one_epoch losses_m is updated only in the logging branch:
\* it changes only in a step that emits a log record; on the coordinator
\* its count, sum and average (the one printed on the console) are those of
\* the sample-weighted losses of the batches logged so far in this epoch;
\* on every other process it stays at its initial zero state.
C17_LossMeterLoggedBatchesOnly ==
    /\ [](\A p \in Procs :
            (InEpoch(p) \/ pc[p] = "eval_call") =>
                /\ losses_m[p].count = SumN(logged[p])
                /\ losses_m[p].sum = SumVN(logged[p])
                /\ logged[p] # <<>> =>
                       /\ losses_m[p].avg = RDiv(SumVN(logged[p]), RInt(SumN(logged[p])))
                       /\ losses_m[p].val = logged[p][Len(logged[p])][1]
                /\ ~is_master(p) => losses_m[p] = Reset /\ logged[p] = <<>>
                /\ Len(logged[p]) <= i[p] + 1)
    /\ [][\A p \in Procs :
            (InEpoch(p) /\ pc'[p] # "eval_loop") =>
                IF TrainRecords(sink'[p]) = TrainRecords(sink[p]) + 1
                  THEN /\ is_master(p)
                       /\ Len(logged'[p]) = Len(logged[p]) + 1
                       /\ losses_m'[p].count = losses_m[p].count + Len(batch[p])
                  ELSE /\ losses_m'[p] = losses_m[p]
                       /\ logged'[p] = logged[p]]_vars

\* three batches at a cadence of two: the first and the third were logged,
\* the second, with a different loss, was not, and the average is that of
\* the two logged ones
C17_Witness ==
    /\ args.log_every_n_steps = 2
    /\ \E p \in Procs :
         /\ is_master(p)
         /\ pc[p] = "loop"
         /\ i[p] = 3
         /\ steps[p] = <<0, 1, 2>>
         /\ logged[p] = <<<<RInt(1), 1>>, <<RInt(2), 2>>>>
         /\ losses_m[p].avg = <<5, 3>>

====
